---- MODULE Spec2Model ----
(***************************************************************************)
(* A model of ParcelJsTransformerPlugin::transform                         *)
(* (crates/parcel_plugin_transformer_js/src/transformer.rs).               *)
(*                                                                         *)
(* One call of transform is a straight-line sequence of steps, each of     *)
(* which may return early with an error (the `?` operators and the         *)
(* explicit `return Err`):                                                 *)
(*                                                                         *)
(*   read source -> build configuration -> engine -> diagnostics gate      *)
(*     -> asset shaping -> result conversion -> return                     *)
(*                                                                         *)
(* The SWC engine (parcel_js_swc_core), the conversion module, Asset::id,  *)
(* FileType::from_extension and TransformationInput::read_code are not in  *)
(* this file; they are modelled from their documented interface.           *)
(***************************************************************************)
EXTENDS Integers, Sequences, FiniteSets, TLC

(***************************************************************************)
(* Bounds of the model.                                                    *)
(***************************************************************************)
\* longest source / rewritten code, in bytes
MaxCodeLen == 2
\* most dependency descriptors the engine returns for one file
MaxDeps == 1
\* longest diagnostics list the engine returns
MaxDiags == 2
\* most Asset values built in the identity-hasher scenario
MaxAssets == 2
\* most id() calls in the identity-hasher scenario
MaxIdCalls == 2
\* the model keeps the low IdBits bits of the 64-bit asset id (the properties
\* compare ids for equality only)
IdBits == 12

(***************************************************************************)
(* Program constants.                                                      *)
(***************************************************************************)
\* width of the `{:016x}` format of an asset id
HexWidth == 16

\* Option<T>: None is the empty tuple, Some(x) the one-element tuple
None == <<>>
Some(x) == <<x>>
IsSome(o) == o # <<>>
Unwrap(o) == o[1]

SeqUpTo(S, n) == UNION {[1..k -> S] : k \in 0..n}

(***************************************************************************)
(* Paths.  A path is a sequence of bytes; BAD stands for a byte sequence   *)
(* that is not valid UTF-8.                                                *)
(***************************************************************************)
CharM == "m"
CharDot == "."
CharJ == "j"
CharX == "x"
CharBad == "0xFF"

Paths ==
  { <<CharM>>,                      \* "m"        no extension
    <<CharM, CharDot, CharJ>>,      \* "m.j"      known extension
    <<CharM, CharDot, CharX>>,      \* "m.x"      unknown extension
    <<CharM, CharDot, CharBad>>,    \* text stem, extension not valid UTF-8
    <<CharBad, CharDot, CharJ>> }   \* stem not valid UTF-8, known extension

IsUtf8(bytes) == \A i \in 1..Len(bytes) : bytes[i] # CharBad

\* Path::to_str / OsStr::to_str : None unless the bytes are valid UTF-8
ToStrLossy(bytes) == Some(bytes)
ToStr(bytes) == IF IsUtf8(bytes) THEN Some(bytes) ELSE None

\* index of the last dot that starts an extension (0 if there is none);
\* a dot at position 1 starts a hidden file name, not an extension
LastDot(p) ==
  LET dots == {i \in 2..Len(p) : p[i] = CharDot}
  IN IF dots = {} THEN 0 ELSE CHOOSE i \in dots : \A j \in dots : j <= i

\* Path::extension : the bytes after the last dot, None if there is no dot
Extension(p) ==
  IF LastDot(p) = 0 THEN None ELSE Some(SubSeq(p, LastDot(p) + 1, Len(p)))

\* the bytes of the path before its extension
Stem(p) == IF LastDot(p) = 0 THEN p ELSE SubSeq(p, 1, LastDot(p) - 1)

\* file_path.extension().and_then(|s| s.to_str()).unwrap_or_default()
ExtensionText(p) ==
  LET e == Extension(p)
      t == IF IsSome(e) THEN ToStr(Unwrap(e)) ELSE None
  IN IF IsSome(t) THEN Unwrap(t) ELSE <<>>

\* FileType::from_extension : a total mapping, unknown extensions map to Other
FromExtension(ext) == IF ext = <<CharJ>> THEN "Js" ELSE "Other"

(***************************************************************************)
(* Code bytes.                                                             *)
(***************************************************************************)
Bytes == 0..1
Codes == SeqUpTo(Bytes, MaxCodeLen)
SourceCodes == {<<0>>, <<0, 1>>}

(***************************************************************************)
(* Environment and options.                                                *)
(***************************************************************************)
Contexts == {"Browser", "Node", "WebWorker"}
\* EnvironmentContext::is_node / is_browser / is_worker
IsNodeContext(c) == c = "Node"
IsBrowserContext(c) == c \in {"Browser", "WebWorker"}
IsWorkerContext(c) == c = "WebWorker"

SourceTypes == {"Module", "Script"}

Environments ==
  [ context : Contexts,
    source_type : SourceTypes,
    should_scope_hoist : BOOLEAN,
    worker_module : BOOLEAN,       \* engines.supports(WorkerModule)
    is_library : BOOLEAN,
    output_format : {"EsModule", "CommonJS"},
    source_map : {None, Some("map")} ]

ParcelOptionsSet ==
  [ mode : {"Development", "Production"},
    log_level : {"Verbose", "Info"},
    env : {None} ]

\* options.env.clone().unwrap_or_default()
EnvVars(options) == IF IsSome(options.env) THEN Unwrap(options.env) ELSE <<>>

(***************************************************************************)
(* Configuration Builder: the Config literal of transform.                 *)
(***************************************************************************)
InsertNodeGlobalsNotNode(env) == ~IsNodeContext(env.context)
InsertNodeGlobals(env) ==
  ~IsNodeContext(env.context) /\ env.source_type # "Script"

ScopeHoistFlagOnly(env) == env.should_scope_hoist
ScopeHoist(env) == env.should_scope_hoist /\ env.source_type # "Script"

SupportsModuleWorkers(env) == env.should_scope_hoist /\ env.worker_module

\* parcel_js_swc_core::Config::default(), restricted to the fields transform
\* sets.  The defaults are set outside transformer.rs; every property below
\* holds or fails the same way whatever the default flags are, because the
\* default code and filename are empty and the source code never is.
DefaultConfig ==
  [ code |-> <<>>,
    env |-> <<>>,
    filename |-> <<>>,
    insert_node_globals |-> FALSE,
    is_browser |-> FALSE,
    is_development |-> FALSE,
    is_esm_output |-> FALSE,
    is_library |-> FALSE,
    is_worker |-> FALSE,
    node_replacer |-> FALSE,
    replace_env |-> FALSE,
    scope_hoist |-> FALSE,
    source_maps |-> FALSE,
    source_type |-> "Module",
    supports_module_workers |-> FALSE,
    trace_bailouts |-> FALSE ]

BuildConfig(env, options, source, filename) ==
  [ DefaultConfig EXCEPT
      !.code = source,
      !.env = EnvVars(options),
      !.filename = filename,
      !.insert_node_globals = InsertNodeGlobals(env),
      !.is_browser = IsBrowserContext(env.context),
      !.is_development = (options.mode = "Development"),
      !.is_esm_output = (env.output_format = "EsModule"),
      !.is_library = env.is_library,
      !.is_worker = IsWorkerContext(env.context),
      !.node_replacer = IsNodeContext(env.context),
      !.replace_env = ~IsNodeContext(env.context),
      !.scope_hoist = ScopeHoist(env),
      !.source_maps = IsSome(env.source_map),
      !.source_type = env.source_type,
      !.supports_module_workers = SupportsModuleWorkers(env),
      !.trace_bailouts = (options.log_level = "Verbose") ]


(***************************************************************************)
(* Inputs of one transform call.                                           *)
(***************************************************************************)
\* the environments and options a transform call is run with
SampleEnvironments ==
  { [ context |-> "Browser", source_type |-> "Module",
      should_scope_hoist |-> FALSE, worker_module |-> FALSE,
      is_library |-> FALSE, output_format |-> "CommonJS",
      source_map |-> None ],
    [ context |-> "Node", source_type |-> "Script",
      should_scope_hoist |-> TRUE, worker_module |-> FALSE,
      is_library |-> TRUE, output_format |-> "CommonJS",
      source_map |-> Some("map") ],
    [ context |-> "Browser", source_type |-> "Script",
      should_scope_hoist |-> TRUE, worker_module |-> TRUE,
      is_library |-> FALSE, output_format |-> "EsModule",
      source_map |-> Some("map") ],
    [ context |-> "WebWorker", source_type |-> "Module",
      should_scope_hoist |-> TRUE, worker_module |-> TRUE,
      is_library |-> FALSE, output_format |-> "EsModule",
      source_map |-> None ] }

SampleOptions ==
  { [ mode |-> "Production", log_level |-> "Info", env |-> None ],
    [ mode |-> "Development", log_level |-> "Verbose", env |-> None ] }

\* TransformationInput: an in-memory Asset, or an asset request whose code is
\* read from the file system
TransformationInputs ==
  [ kind : {"Asset", "InitialAsset"},
    file_path : Paths,
    env : SampleEnvironments,
    code : SourceCodes ]

FileSystems == {"readable", "unreadable"}

\* TransformationInput::read_code : an Asset input carries its code; an
\* initial asset is read from the file system, which may fail
ReadCode(inp, fs) ==
  IF inp.kind = "Asset" \/ fs = "readable" THEN Some(inp.code) ELSE None

(***************************************************************************)
(* The transform engine, a black box: an error, a non-empty diagnostics    *)
(* list, or rewritten code with dependency descriptors.                    *)
(***************************************************************************)
Specifiers == {"other"}
Descriptors == [ specifier : Specifiers, placeholder : {None} \cup {Some(b) : b \in Bytes} ]
DiagnosticLists == SeqUpTo({"error", "warning"}, MaxDiags) \ {<<>>}

EngineResponses ==
  { [ kind |-> "Err", code |-> <<>>, dependencies |-> <<>>, diagnostics |-> None ] }
  \cup { [ kind |-> "Ok", code |-> <<>>, dependencies |-> <<>>,
           diagnostics |-> Some(d) ] : d \in DiagnosticLists }
  \cup { [ kind |-> "Ok", code |-> c, dependencies |-> ds, diagnostics |-> None ] :
           c \in Codes, ds \in SeqUpTo(Descriptors, MaxDeps) }

\* the `?` on the engine call
EngineFailedNever(r) == FALSE
EngineFailed(r) == r.kind = "Err"

\* `if let Some(errors) = transformation_result.diagnostics`
HasErrorDiagnostic(tr) ==
  /\ IsSome(tr.diagnostics)
  /\ \E i \in 1..Len(Unwrap(tr.diagnostics)) : Unwrap(tr.diagnostics)[i] = "error"
DiagnosticsPresent(tr) == IsSome(tr.diagnostics)

(***************************************************************************)
(* Identity Hasher and the hex form of an id.                              *)
(***************************************************************************)
Modulus == 2 ^ IdBits

CharCode(c) ==
  CASE c = CharM -> 1 [] c = CharDot -> 2 [] c = CharJ -> 3
    [] c = CharX -> 4 [] OTHER -> 5

RECURSIVE HashBytes(_, _)
HashBytes(h, s) ==
  IF s = <<>> THEN h
  ELSE HashBytes((h * 31 + Head(s) + 1) % Modulus, Tail(s))

PathCodes(p) == [i \in 1..Len(p) |-> CharCode(p[i])]
TypeCode(t) == IF t = "Js" THEN 1 ELSE 2

\* Asset::id : a function of file_path and code only
IdWithType(a) ==
  HashBytes(HashBytes(HashBytes(7, PathCodes(a.file_path)), <<TypeCode(a.asset_type)>>), a.code)
Id(a) == HashBytes(HashBytes(7, PathCodes(a.file_path)), a.code)

\* format!("{:016x}", id) : HexWidth hexadecimal digits, zero-padded
RECURSIVE HexDigits(_, _)
HexDigits(n, width) ==
  IF width = 0 THEN <<>> ELSE Append(HexDigits(n \div 16, width - 1), n % 16)
Hex16(n) == HexDigits(n, HexWidth)

(***************************************************************************)
(* Asset shaping (the Asset literal of transform).                         *)
(***************************************************************************)
AssetTypeAlwaysJs(path) == "Js"
AssetTypeOf(path) == FromExtension(ExtensionText(path))

AssetCodeRewritten(source, tr) == tr.code
AssetCode(source, tr) == source

ShapeAsset(inp, source, tr) ==
  [ asset_type |-> AssetTypeOf(inp.file_path),
    code |-> AssetCode(source, tr),
    env |-> inp.env,
    file_path |-> inp.file_path,
    unique_key |-> None,
    has_symbols |-> FALSE ]

(***************************************************************************)
(* Result Conversion (conversion::convert_result).                         *)
(***************************************************************************)
Occurrences(token, code) == Cardinality({i \in 1..Len(code) : code[i] = token})

Malformed(dep, code) ==
  IsSome(dep.placeholder) /\ Occurrences(Unwrap(dep.placeholder), code) = 0

ConvertResult(a, config, tr, options) ==
  IF \E i \in 1..Len(tr.dependencies) : Malformed(tr.dependencies[i], tr.code)
  THEN None
  ELSE Some(
    [ asset |-> [ a EXCEPT !.code = tr.code,
                           !.unique_key = Some(Hex16(Id(a))),
                           !.has_symbols = TRUE ],
      dependencies |->
        [ i \in 1..Len(tr.dependencies) |->
            [ specifier |-> tr.dependencies[i].specifier,
              placeholder |-> tr.dependencies[i].placeholder,
              source_asset_id |-> Some(Hex16(Id(a))),
              source_path |-> Some(a.file_path) ] ],
      invalidate_on_file_change |-> <<>> ])

(***************************************************************************)
(* State.                                                                  *)
(***************************************************************************)
VARIABLES
  input,                  \* the TransformationInput of the call
  options,                \* context.options()
  file_system,            \* context.file_system()
  pc,                     \* position of the call in transform
  source_code,            \* Option: the code read from the input
  engine_config,          \* Option: the Config handed to the engine
  transformation_result,  \* Option: the engine's response (Ok or Err)
  asset,                  \* Option: the Asset built for conversion
  convert_config,         \* Option: the Config handed to convert_result
  result,                 \* what transform returns
  steps,                  \* the steps the call has run, in order
  pool,                   \* identity scenario: the Asset values built
  id_log                  \* identity scenario: <<index in pool, id>> per id() call

vars ==
  << input, options, file_system, pc, source_code, engine_config,
     transformation_result, asset, convert_config, result, steps, pool, id_log >>

Pending == [ status |-> "pending", error |-> "", value |-> None ]
Failure(kind) == [ status |-> "err", error |-> kind, value |-> None ]
Success(v) == [ status |-> "ok", error |-> "", value |-> Some(v) ]

CallStart ==
  /\ source_code = None
  /\ engine_config = None
  /\ transformation_result = None
  /\ asset = None
  /\ convert_config = None
  /\ result = Pending
  /\ steps = <<>>

Init ==
  /\ input \in TransformationInputs
  /\ options \in SampleOptions
  /\ file_system \in FileSystems
  /\ pc = "read"
  /\ CallStart
  /\ pool = <<>>
  /\ id_log = <<>>

Return(r) ==
  /\ result' = r
  /\ pc' = "done"

(***************************************************************************)
(* transform, step by step.                                                *)
(***************************************************************************)
\* let source_code = input.read_code(file_system)?;
ReadSource ==
  /\ pc = "read"
  /\ steps' = Append(steps, "read")
  /\ LET r == ReadCode(input, file_system)
     IN IF IsSome(r)
        THEN /\ source_code' = r
             /\ pc' = "config"
             /\ UNCHANGED result
        ELSE /\ Return(Failure("ReadError"))
             /\ UNCHANGED source_code
  /\ UNCHANGED << input, options, file_system, engine_config,
                  transformation_result, asset, convert_config, pool, id_log >>

\* the Config literal; `filename` fails on a path that is not UTF-8
BuildConfiguration ==
  /\ pc = "config"
  /\ steps' = Append(steps, "config")
  /\ LET filename == ToStr(input.file_path)
     IN IF IsSome(filename)
        THEN /\ engine_config' =
                  Some(BuildConfig(input.env, options, Unwrap(source_code),
                                   Unwrap(filename)))
             /\ pc' = "engine"
             /\ UNCHANGED result
        ELSE /\ Return(Failure("InvalidPath"))
             /\ UNCHANGED engine_config
  /\ UNCHANGED << input, options, file_system, source_code,
                  transformation_result, asset, convert_config, pool, id_log >>

\* parcel_js_swc_core::transform(config, None)?
CallEngine ==
  /\ pc = "engine"
  /\ steps' = Append(steps, "engine")
  /\ \E r \in EngineResponses :
       /\ transformation_result' = Some(r)
       /\ IF EngineFailed(r)
          THEN Return(Failure("EngineError"))
          ELSE /\ pc' = "gate"
               /\ UNCHANGED result
  /\ UNCHANGED << input, options, file_system, source_code, engine_config,
                  asset, convert_config, pool, id_log >>

\* if let Some(errors) = transformation_result.diagnostics { return Err(..) }
DiagnosticsGate ==
  /\ pc = "gate"
  /\ steps' = Append(steps, "gate")
  /\ IF DiagnosticsPresent(Unwrap(transformation_result))
     THEN Return(Failure("EngineDiagnostics"))
     ELSE /\ pc' = "shape"
          /\ UNCHANGED result
  /\ UNCHANGED << input, options, file_system, source_code, engine_config,
                  transformation_result, asset, convert_config, pool, id_log >>

\* let asset = Asset { asset_type, code: source_code, env, file_path, .. }
AssetShaping ==
  /\ pc = "shape"
  /\ steps' = Append(steps, "shape")
  /\ asset' = Some(ShapeAsset(input, Unwrap(source_code),
                              Unwrap(transformation_result)))
  /\ pc' = "convert"
  /\ UNCHANGED << input, options, file_system, source_code, engine_config,
                  transformation_result, convert_config, result, pool, id_log >>

\* the configuration handed to convert_result
ConversionConfigOfEngine(built) == built
ConversionConfig(built) == DefaultConfig

\* conversion::convert_result(asset, &config, transformation_result, &options)
\*   .map_err(|_err| anyhow!("Failed to transform"))?
Conversion ==
  /\ pc = "convert"
  /\ steps' = Append(steps, "convert")
  /\ convert_config' = Some(ConversionConfig(Unwrap(engine_config)))
  /\ LET r == ConvertResult(Unwrap(asset), Unwrap(convert_config'),
                            Unwrap(transformation_result), options)
     IN IF IsSome(r)
        THEN Return(Success(Unwrap(r)))
        ELSE Return(Failure("ConversionError"))
  /\ UNCHANGED << input, options, file_system, source_code, engine_config,
                  transformation_result, asset, pool, id_log >>

Next ==
  \/ ReadSource
  \/ BuildConfiguration
  \/ CallEngine
  \/ DiagnosticsGate
  \/ AssetShaping
  \/ Conversion

Spec == Init /\ [][Next]_vars

(***************************************************************************)
(* The Configuration Builder on its own: every environment and every       *)
(* option set, starting where the source has been read.                    *)
(***************************************************************************)
InitConfig ==
  /\ input \in [ kind : {"Asset"}, file_path : Paths, env : Environments,
                 code : SourceCodes ]
  /\ options \in ParcelOptionsSet
  /\ file_system = "readable"
  /\ pc = "config"
  /\ source_code = Some(input.code)
  /\ engine_config = None
  /\ transformation_result = None
  /\ asset = None
  /\ convert_config = None
  /\ result = Pending
  /\ steps = <<"read">>
  /\ pool = <<>>
  /\ id_log = <<>>

NextConfig == BuildConfiguration

SpecConfig == InitConfig /\ [][NextConfig]_vars

(***************************************************************************)
(* The Identity Hasher on its own: Asset values are built and asked for    *)
(* their id, in any order (test_asset_id_is_stable).                       *)
(***************************************************************************)
AssetValues ==
  [ asset_type : {"Js", "Other"},
    code : SourceCodes,
    env : { e \in SampleEnvironments : e.context # "Browser" },
    file_path : { <<CharM>>, <<CharM, CharDot, CharJ>> },
    unique_key : {None},
    has_symbols : {FALSE} ]

InitId ==
  /\ input = CHOOSE i \in TransformationInputs : TRUE
  /\ options = CHOOSE o \in SampleOptions : TRUE
  /\ file_system = "readable"
  /\ pc = "idle"
  /\ CallStart
  /\ pool = <<>>
  /\ id_log = <<>>

\* let asset_n = Asset { code, file_path, ..Asset::default() };
NewAsset ==
  /\ pc = "idle"
  /\ Len(pool) < MaxAssets
  /\ \E a \in AssetValues : pool' = Append(pool, a)
  /\ UNCHANGED << input, options, file_system, pc, source_code, engine_config,
                  transformation_result, asset, convert_config, result, steps,
                  id_log >>

\* asset_n.id()
CallId ==
  /\ pc = "idle"
  /\ Len(id_log) < MaxIdCalls
  /\ \E i \in 1..Len(pool) : id_log' = Append(id_log, <<i, Id(pool[i])>>)
  /\ UNCHANGED << input, options, file_system, pc, source_code, engine_config,
                  transformation_result, asset, convert_config, result, steps,
                  pool >>

NextId == NewAsset \/ CallId

SpecId == InitId /\ [][NextId]_vars

(***************************************************************************)
(* Vocabulary of the properties.                                           *)
(***************************************************************************)
Order == <<"read", "config", "engine", "gate", "shape", "convert">>

Done == pc = "done"
Succeeded == result.status = "ok"
Failed == result.status = "err"
Calls(step) == Cardinality({i \in 1..Len(steps) : steps[i] = step})

EngineReturned == IsSome(transformation_result)
EngineOk == EngineReturned /\ Unwrap(transformation_result).kind = "Ok"
EngineDiagnosed ==
  /\ EngineOk
  /\ IsSome(Unwrap(transformation_result).diagnostics)
  /\ Len(Unwrap(Unwrap(transformation_result).diagnostics)) > 0
EngineClean ==
  EngineOk /\ Unwrap(transformation_result).diagnostics = None

ReadOk == IsSome(ReadCode(input, file_system))
WellFormed ==
  LET tr == Unwrap(transformation_result)
  IN \A i \in 1..Len(tr.dependencies) : ~Malformed(tr.dependencies[i], tr.code)

\* the hex form of the id of the input asset: its path and its original code
InputKey == Hex16(Id([file_path |-> input.file_path, code |-> input.code]))

(***************************************************************************)
(* C1. Diagnostics short-circuit: when the engine returns a non-empty      *)
(* diagnostics list, transform fails with EngineDiagnostics, convert_result*)
(* is never invoked and no Asset or result is produced; when the engine    *)
(* returns no diagnostics the gate lets the call through.                  *)
(***************************************************************************)
C1_DiagnosticsShortCircuit ==
  /\ EngineDiagnosed =>
       /\ pc \in {"gate", "done"}
       /\ Calls("convert") = 0
       /\ asset = None
       /\ Done => result = Failure("EngineDiagnostics")
  /\ (EngineClean /\ Calls("gate") = 1) =>
       /\ result.error # "EngineDiagnostics"
       /\ Calls("shape") = 0 => pc = "shape"

C1_Witness ==
  /\ Done
  /\ EngineDiagnosed
  /\ Unwrap(Unwrap(transformation_result).diagnostics) = <<"warning">>
  /\ result = Failure("EngineDiagnostics")

(***************************************************************************)
(* C2 as stated: a call whose path is not valid UTF-8 fails with           *)
(* InvalidPath and never invokes the engine.                               *)
(***************************************************************************)
C2_InvalidPathAlways ==
  ~IsUtf8(input.file_path) =>
    /\ Calls("engine") = 0
    /\ Done => result = Failure("InvalidPath")

(***************************************************************************)
(* C2 amended: a call whose path is not valid UTF-8 never invokes the      *)
(* engine and fails: with InvalidPath when the source was read, with the   *)
(* read error when reading the source failed first.                        *)
(***************************************************************************)
C2_InvalidPathPrecedesEngine ==
  ~IsUtf8(input.file_path) =>
    /\ Calls("engine") = 0
    /\ engine_config = None
    /\ Done => /\ ReadOk => result = Failure("InvalidPath")
               /\ ~ReadOk => result = Failure("ReadError")

C2_Witness ==
  /\ Done
  /\ ~IsUtf8(input.file_path)
  /\ result = Failure("InvalidPath")
  /\ steps = <<"read", "config">>

(***************************************************************************)
(* C5. Join-key binding: in a successful result every Dependency has       *)
(* source_path = the Asset's file_path and source_asset_id = the 16-digit  *)
(* hex form of the id of the input asset (path and original source bytes), *)
(* and the Asset's unique_key is that same string, also when the engine    *)
(* rewrote the code.                                                       *)
(***************************************************************************)
C5_JoinKeyBinding ==
  Succeeded =>
    LET r == Unwrap(result.value)
    IN /\ r.asset.unique_key = Some(InputKey)
       /\ Len(InputKey) = HexWidth
       /\ \A i \in 1..Len(r.dependencies) :
            /\ r.dependencies[i].source_path = Some(r.asset.file_path)
            /\ r.dependencies[i].source_path = Some(input.file_path)
            /\ r.dependencies[i].source_asset_id = Some(InputKey)

C5_Witness ==
  /\ Succeeded
  /\ Len(Unwrap(result.value).dependencies) >= 1
  /\ Unwrap(result.value).asset.code # input.code
  /\ Hex16(Id([file_path |-> input.file_path,
               code |-> Unwrap(result.value).asset.code])) # InputKey

(***************************************************************************)
(* C6. insert_node_globals = (context is not node) AND (source type is     *)
(* Module); a Script source never gets insert_node_globals.                *)
(***************************************************************************)
C6_InsertNodeGlobals ==
  IsSome(engine_config) =>
    /\ Unwrap(engine_config).insert_node_globals =
         (~IsNodeContext(input.env.context) /\ input.env.source_type = "Module")
    /\ input.env.source_type = "Script" =>
         ~Unwrap(engine_config).insert_node_globals

C6_Witness ==
  /\ IsSome(engine_config)
  /\ ~IsNodeContext(input.env.context)
  /\ input.env.source_type = "Script"
  /\ ~Unwrap(engine_config).insert_node_globals

(***************************************************************************)
(* C7. scope_hoist = (hoisting flag) AND (source type is Module), so a     *)
(* Script source is never scope-hoisted; supports_module_workers =         *)
(* (hoisting flag) AND (feature matrix reports worker modules), whatever   *)
(* the source type.                                                        *)
(***************************************************************************)
C7_ScopeHoist ==
  IsSome(engine_config) =>
    /\ Unwrap(engine_config).scope_hoist =
         (input.env.should_scope_hoist /\ input.env.source_type = "Module")
    /\ input.env.source_type = "Script" => ~Unwrap(engine_config).scope_hoist
    /\ Unwrap(engine_config).supports_module_workers =
         (input.env.should_scope_hoist /\ input.env.worker_module)

C7_Witness ==
  /\ IsSome(engine_config)
  /\ input.env.source_type = "Script"
  /\ input.env.should_scope_hoist
  /\ ~Unwrap(engine_config).scope_hoist
  /\ Unwrap(engine_config).supports_module_workers

(***************************************************************************)
(* C8 as stated: the configuration handed to convert_result is the         *)
(* configuration that was built and handed to the engine in the same call. *)
(***************************************************************************)
C8_ConversionGetsEngineConfig ==
  IsSome(convert_config) => convert_config = engine_config

(***************************************************************************)
(* C9. No retry, all failures terminal: the steps run in the fixed order   *)
(* read, configuration, engine, gate, shaping, conversion, each at most    *)
(* once; a failing step ends the call with an error and no later step      *)
(* runs; transform succeeds only if every step succeeded.                  *)
(***************************************************************************)
FailingStep(kind) ==
  CASE kind = "ReadError" -> "read"
    [] kind = "InvalidPath" -> "config"
    [] kind = "EngineError" -> "engine"
    [] kind = "EngineDiagnostics" -> "gate"
    [] kind = "ConversionError" -> "convert"

C9_NoRetryAllTerminal ==
  /\ Len(steps) <= Len(Order)
  /\ \A i \in 1..Len(steps) : steps[i] = Order[i]
  /\ Calls("engine") <= 1 /\ Calls("convert") <= 1
  /\ Done <=> result # Pending
  /\ Failed => /\ steps # <<>>
               /\ steps[Len(steps)] = FailingStep(result.error)
  /\ ~ReadOk => Len(steps) <= 1
  /\ ~IsUtf8(input.file_path) => Len(steps) <= 2
  /\ (EngineReturned /\ ~EngineOk) => Len(steps) <= 3
  /\ EngineDiagnosed => Len(steps) <= 4
  /\ Succeeded =>
       /\ steps = Order
       /\ ReadOk
       /\ IsUtf8(input.file_path)
       /\ EngineClean
       /\ WellFormed

C9_Witness ==
  /\ Done
  /\ result = Failure("ConversionError")
  /\ steps = Order

(***************************************************************************)
(* C10 as stated: a successful transform keeps env and file_path, its code *)
(* is the engine's; the asset type comes from the extension alone, and a   *)
(* missing, non-text or unknown extension never makes transform fail.      *)
(***************************************************************************)
AssetShaped ==
  Succeeded =>
    LET a == Unwrap(result.value).asset
    IN /\ a.env = input.env
       /\ a.file_path = input.file_path
       /\ a.code = Unwrap(transformation_result).code
       /\ a.asset_type = (IF Extension(input.file_path) = Some(<<CharJ>>)
                          THEN "Js" ELSE "Other")

C10_ExtensionNeverFails ==
  /\ AssetShaped
  /\ (Done /\ IsUtf8(Stem(input.file_path))) => result # Failure("InvalidPath")

(***************************************************************************)
(* C10 amended: a successful transform keeps env and file_path, its code   *)
(* is the engine's; the asset type comes from the extension alone by a     *)
(* total mapping, so a missing or unknown extension yields the default     *)
(* type and never makes transform fail, and asset shaping itself never     *)
(* fails; an extension that is not valid text makes the path invalid, so   *)
(* transform fails before an asset type is determined.                     *)
(***************************************************************************)
C10_AssetShaping ==
  /\ AssetShaped
  /\ (Done /\ IsUtf8(input.file_path)) => result # Failure("InvalidPath")
  /\ Failed => steps[Len(steps)] # "shape"
  /\ Calls("shape") = 1 => IsSome(asset)
  /\ ~IsUtf8(input.file_path) => (asset = None /\ ~Succeeded)

C10_Witness ==
  /\ Succeeded
  /\ Extension(input.file_path) = Some(<<CharX>>)
  /\ Unwrap(result.value).asset.asset_type = "Other"
  /\ Unwrap(result.value).asset.code # input.code

====
